---- MODULE Spec2Model ----
(***************************************************************************)
(* Model of the Torec subtitle provider                                    *)
(* (src/subliminal/providers/torec.py): the TorecProvider life cycle       *)
(* (__init__, initialize, terminate), the search path (query,              *)
(* _get_episode_subtitles_from_series_page, list_subtitles) and            *)
(* TorecSubtitle.get_matches.                                              *)
(*                                                                         *)
(* Python strings are sequences of one-character strings; Python values    *)
(* whose type matters (None / int / str / dict) are tagged records of one  *)
(* shape, so that 5 and '5' are different dictionary keys and a str is     *)
(* never silently compared with an int.                                    *)
(*                                                                         *)
(* The package runs on Python 2 and on Python 3, which order a str and an  *)
(* int differently; python3 is fixed, either way, in the initial state.    *)
(* The site is the environment: the login and logout responses, the        *)
(* suggestions and the season tabs are chosen per call; the year text and  *)
(* the rows of a page are a function of its URL.  The page requests of a   *)
(* lookup are answered with a 2xx status.                                  *)
(***************************************************************************)
EXTENDS Integers, Sequences, FiniteSets, TLC

VARIABLES pc, username, password, session, logged_in, login_posts, python3, call

vars == <<pc, username, password, session, logged_in, login_posts, python3, call>>

-----------------------------------------------------------------------------
(* Bounds of the model *)

MaxSuggestions == 2

-----------------------------------------------------------------------------
(* Python values *)

None == "None"

NoDict == [type |-> 0, data |-> <<>>]

PyNone == [t |-> "none", n |-> 0, s |-> <<>>, d |-> NoDict]
PyInt(i) == [t |-> "int", n |-> i, s |-> <<>>, d |-> NoDict]
PyStr(str) == [t |-> "str", n |-> 0, s |-> str, d |-> NoDict]
PyDict(dict) == [t |-> "dict", n |-> 0, s |-> <<>>, d |-> dict]

\* Python truthiness: None, 0, '' and {} (PyDict(NoDict)) are false
Truthy(v) ==
    CASE v.t = "none" -> FALSE
      [] v.t = "int" -> v.n # 0
      [] v.t = "str" -> v.s # <<>>
      [] OTHER -> v.d # NoDict

Digits == <<"0", "1", "2", "3", "4", "5", "6", "7", "8", "9">>

IsDigit(c) == \E i \in 1..10 : Digits[i] = c

DigitVal(c) == (CHOOSE i \in 1..10 : Digits[i] = c) - 1

\* code point order of the characters that reach a comparison
Ord(c) == IF IsDigit(c) THEN 48 + DigitVal(c) ELSE IF c = "-" THEN 45 ELSE 0

\* int(s) for a string of decimal digits
RECURSIVE StrToInt(_)
StrToInt(str) ==
    IF str = <<>> THEN 0
    ELSE 10 * StrToInt(SubSeq(str, 1, Len(str) - 1)) + DigitVal(str[Len(str)])

\* a <= b on two str objects: lexicographic by code point
RECURSIVE StrLE(_, _)
StrLE(a, b) ==
    IF a = <<>> THEN TRUE
    ELSE IF b = <<>> THEN FALSE
    ELSE IF Ord(Head(a)) < Ord(Head(b)) THEN TRUE
    ELSE IF Ord(Head(a)) > Ord(Head(b)) THEN FALSE
    ELSE StrLE(Tail(a), Tail(b))

\* a <= b as the interpreter evaluates it: "T", "F" or "E" (TypeError).
\* Python 3 refuses to order a str and an int; Python 2 orders every int
\* before every str.
PyLE(a, b, py3) ==
    CASE a.t = "str" /\ b.t = "str" -> IF StrLE(a.s, b.s) THEN "T" ELSE "F"
      [] a.t = "int" /\ b.t = "int" -> IF a.n <= b.n THEN "T" ELSE "F"
      [] a.t = "int" /\ b.t = "str" -> IF py3 THEN "E" ELSE "T"
      [] a.t = "str" /\ b.t = "int" -> IF py3 THEN "E" ELSE "F"
      [] OTHER -> "E"

\* a == b never raises; objects of different types are unequal
PyEq(a, b) == a = b

-----------------------------------------------------------------------------
(* TorecProvider.__init__ / initialize / terminate *)

Credentials == {None, "subliminal"}

\* the condition of the `if` that raises ConfigurationError
PartialCredentialsMut(u, p) == u # None /\ p = None
PartialCredentials(u, p) ==
    (u # None /\ p = None) \/ (u = None /\ p # None)

NoCall == [op |-> "none", raised |-> "None"]

Init ==
    /\ pc = "start"
    /\ username = None
    /\ password = None
    /\ session = "unset"
    /\ logged_in = FALSE
    /\ login_posts = 0
    /\ python3 \in BOOLEAN
    /\ call = NoCall

\* TorecProvider(username, password)
Construct(u, p) ==
    /\ pc = "start"
    /\ IF PartialCredentials(u, p)
       THEN /\ pc' = "ctor_failed"
            /\ call' = [op |-> "__init__", raised |-> "ConfigurationError",
                        username |-> u, password |-> p]
            /\ UNCHANGED <<username, password, session, logged_in>>
       ELSE /\ pc' = "constructed"
            /\ session' = "None"
            /\ username' = u
            /\ password' = p
            /\ logged_in' = FALSE
            /\ call' = [op |-> "__init__", raised |-> "None",
                        username |-> u, password |-> p]
    /\ UNCHANGED <<login_posts, python3>>

\* bodies the login endpoint can answer with
LoginBodies == {<<"1">>, <<"0">>, <<>>, <<"1", "1">>}

\* r.content == b'1'
LoginRejectedMut(content) == content # <<>> /\ content[1] = "1"
LoginRejected(content) == content = <<"1">>

\* the guard of the login block of initialize
HasCredentials(u, p) == u # None /\ p # None

\* provider.initialize(); content is the body of the login response
Initialize(content) ==
    /\ pc = "constructed"
    /\ session' = "open"
    /\ IF HasCredentials(username, password)
       THEN /\ login_posts' = login_posts + 1
            /\ IF LoginRejected(content)
               THEN /\ pc' = "init_failed"
                    /\ call' = [op |-> "initialize", raised |-> "AuthenticationError",
                                arg |-> username, posted |-> TRUE, content |-> content]
                    /\ UNCHANGED logged_in
               ELSE /\ pc' = "initialized"
                    /\ logged_in' = TRUE
                    /\ call' = [op |-> "initialize", raised |-> "None",
                                arg |-> None, posted |-> TRUE, content |-> content]
       ELSE /\ content = <<>>   \* no request is made, so there is no body
            /\ pc' = "initialized"
            /\ call' = [op |-> "initialize", raised |-> "None",
                        arg |-> None, posted |-> FALSE, content |-> content]
            /\ UNCHANGED <<logged_in, login_posts>>
    /\ UNCHANGED <<username, password, python3>>

LogoutStatuses == {200, 302, 500}

\* r.raise_for_status(): HTTPError for 4xx and 5xx
RaiseForStatus(status) == status >= 400

\* provider.terminate(); status is the status of the logout response
Terminate(status) ==
    /\ pc \in {"initialized", "used", "init_failed"}
    /\ IF logged_in
       THEN IF RaiseForStatus(status)
            THEN /\ pc' = "terminate_failed"
                 /\ call' = [op |-> "terminate", raised |-> "HTTPError",
                             was_logged_in |-> TRUE, status |-> status]
                 /\ UNCHANGED <<logged_in, session>>
            ELSE /\ pc' = "terminated"
                 /\ logged_in' = FALSE
                 /\ session' = "closed"
                 /\ call' = [op |-> "terminate", raised |-> "None",
                             was_logged_in |-> TRUE, status |-> status]
       ELSE /\ status = 200   \* no request is made, so there is no status
            /\ pc' = "terminated"
            /\ session' = "closed"
            /\ call' = [op |-> "terminate", raised |-> "None",
                        was_logged_in |-> FALSE, status |-> status]
            /\ UNCHANGED logged_in
    /\ UNCHANGED <<username, password, login_posts, python3>>

-----------------------------------------------------------------------------
(* The site: the pages the provider scrapes *)

SERIES_WITH_SUBTITLES == 3
MOVIE_WITHOUT_SUBTITLES == 7
MOVIE_WITH_SUBTITLES == 10

ServerUrl ==
    <<"h", "t", "t", "p", ":", "/", "/", "t", "o", "r", "e", "c", ".", "n", "e", "t", "/">>

SubIdKey == <<"s", "u", "b", "_", "i", "d", "=">>

\* relative URLs ('data') of the autocomplete suggestions
MovieA == <<"m", "?">> \o SubIdKey \o <<"3", "4", "5">>
MovieB == <<"m", "?">> \o SubIdKey \o <<"7">>
MovieC == <<"n">>
TvA == <<"t", "v", "a">>
TvB == <<"t", "v", "b">>

\* the suggestions the autocomplete endpoint can list, as {'type', 'data'}
Catalogue ==
    { [type |-> MOVIE_WITH_SUBTITLES, data |-> MovieA],
      [type |-> MOVIE_WITH_SUBTITLES, data |-> MovieB],
      [type |-> MOVIE_WITHOUT_SUBTITLES, data |-> MovieC],
      [type |-> SERIES_WITH_SUBTITLES, data |-> TvA],
      [type |-> SERIES_WITH_SUBTITLES, data |-> TvB] }

\* text of the year element of the detail page served at a relative URL
YearDivText(data) ==
    CASE data = MovieA -> <<"2", "0", "1", "3">>
      [] data = MovieB -> <<"2", "0", "1", "2">>
      [] data = TvA -> <<"2", "0", "1", "2", "-", "2", "0", "1", "4">>
      [] data = TvB -> <<"2", "0", "1", "2", "-">>
      [] OTHER -> <<>>

\* hrefs of episode anchors
EpA == <<"e", "?">> \o SubIdKey \o <<"9", "0">>
EpB == <<"e", "?">> \o SubIdKey \o <<"1", "2">>
EpC == <<"e", "?">> \o SubIdKey \o <<"8">>

Anchor(text, href) == [text |-> text, href |-> href]

\* the season tabs a series page can hold: each tab is its list of anchors
TabsChoices ==
    { <<>>,
      << <<Anchor(<<"1">>, EpA), Anchor(<<"5", "-", "8">>, EpB)>> >>,
      << <<Anchor(<<"1", "-", "2">>, EpC)>>,
         <<Anchor(<<"1">>, EpB), Anchor(<<"6">>, EpA)>> >> }

\* the dlRow_ rows of the listing page served at a URL: the text of the
\* 'version' element and the row's id
RowsOf(url) ==
    IF url = ServerUrl \o MovieA
    THEN <<[release |-> "Enders.Game.2013.HDRip", id |-> "dlRow_abc"]>>
    ELSE IF url = ServerUrl \o EpB
    THEN <<[release |-> "S03E10 HDTV x264-EVOLVE", id |-> "dlRow_x1"],
           [release |-> "S03E10 HDTV x264-EVOLVE", id |-> "dlRow_x2"]>>
    ELSE <<>>

SeqsUpTo(S, n) == UNION { [1..k -> S] : k \in 0..n }

Env ==
    [suggestions : SeqsUpTo(Catalogue, MaxSuggestions),
     tabs : TabsChoices]

-----------------------------------------------------------------------------
(* Regular expressions of the provider *)

\* last index of the run of digits that starts at i (i - 1 when there is none)
RECURSIVE DigitRunEnd(_, _)
DigitRunEnd(text, i) ==
    IF i <= Len(text) /\ IsDigit(text[i]) THEN DigitRunEnd(text, i + 1) ELSE i - 1

Dig4(text, i) ==
    /\ i >= 1
    /\ i + 3 <= Len(text)
    /\ \A k \in i..(i + 3) : IsDigit(text[k])

NoMatch == <<>>

\* '(\d{4})?-?(\d{4})' tried at position i, in the order the backtracking
\* engine tries the alternatives; a group that takes no part is ''
YearReAt(text, i) ==
    IF Dig4(text, i) /\ i + 4 <= Len(text) /\ text[i + 4] = "-" /\ Dig4(text, i + 5)
    THEN <<SubSeq(text, i, i + 3), SubSeq(text, i + 5, i + 8)>>
    ELSE IF Dig4(text, i) /\ Dig4(text, i + 4)
    THEN <<SubSeq(text, i, i + 3), SubSeq(text, i + 4, i + 7)>>
    ELSE IF text[i] = "-" /\ Dig4(text, i + 1)
    THEN <<<<>>, SubSeq(text, i + 1, i + 4)>>
    ELSE IF Dig4(text, i)
    THEN <<<<>>, SubSeq(text, i, i + 3)>>
    ELSE NoMatch

\* re.findall('(\d{4})?-?(\d{4})', text)[0], NoMatch when findall is empty
YearReFirst(text) ==
    LET hits == { i \in 1..Len(text) : YearReAt(text, i) # NoMatch }
    IN IF hits = {} THEN NoMatch
       ELSE YearReAt(text, CHOOSE i \in hits : \A j \in hits : i <= j)

\* re.findall('(\d+)', text)[0], NoMatch when findall is empty
MovieYearReFirst(text) ==
    LET hits == { i \in 1..Len(text) : IsDigit(text[i]) }
    IN IF hits = {} THEN NoMatch
       ELSE LET i == CHOOSE i \in hits : \A j \in hits : i <= j
            IN <<SubSeq(text, i, DigitRunEnd(text, i))>>

\* re.compile('(\d+)-?(\d+)?').findall(text): its first element, NoMatch
\* when empty
EpisodesReFirst(text) ==
    LET hits == { i \in 1..Len(text) : IsDigit(text[i]) }
    IN IF hits = {} THEN NoMatch
       ELSE LET i == CHOOSE i \in hits : \A j \in hits : i <= j
                e == DigitRunEnd(text, i)
            IN IF e + 1 <= Len(text) /\ text[e + 1] = "-"
               THEN <<SubSeq(text, i, e), SubSeq(text, e + 2, DigitRunEnd(text, e + 2))>>
               ELSE <<SubSeq(text, i, e), <<>>>>

\* positions where 'sub_id=' followed by a digit starts, after at least one
\* character ('.+')
SubIdHits(url) ==
    { k \in 2..Len(url) :
        /\ k + 7 <= Len(url)
        /\ SubSeq(url, k, k + 6) = SubIdKey
        /\ IsDigit(url[k + 7]) }

\* re.match('.+sub_id=(\d+)', url) is None
SubIdNoMatch(url) == SubIdHits(url) = {}

\* start of group 1 of the match: '.+' is greedy, so the last hit
SubIdDigitsAt(url) == (CHOOSE k \in SubIdHits(url) : \A j \in SubIdHits(url) : j <= k) + 7

\* re.match('.+sub_id=(\d+)', url).group(): the whole matched text
SubIdGroup(url) == SubSeq(url, 1, DigitRunEnd(url, SubIdDigitsAt(url)))

\* re.match('.+sub_id=(\d+)', url).group(1): the digits
SubIdGroup1(url) == SubSeq(url, SubIdDigitsAt(url), DigitRunEnd(url, SubIdDigitsAt(url)))

\* subtitle_id = re.match('.+sub_id=(\d+)', url).group()[0]
SubtitleIdOf(url) == <<SubIdGroup(url)[1]>>

-----------------------------------------------------------------------------
(* TorecProvider._get_episode_subtitles_from_series_page *)

\* the keys one anchor adds to `episodes`: the ints start..end for a range,
\* the str start (never converted) for a single number
AnchorKeysMut(text) ==
    LET m == EpisodesReFirst(text)
    IN IF m = NoMatch THEN {}
       ELSE IF m[2] # <<>>
            THEN { PyInt(i) : i \in StrToInt(m[1])..(StrToInt(m[2]) - 1) }
            ELSE { PyStr(m[1]) }
AnchorKeys(text) ==
    LET m == EpisodesReFirst(text)
    IN IF m = NoMatch THEN {}
       ELSE IF m[2] # <<>>
            THEN { PyInt(i) : i \in StrToInt(m[1])..StrToInt(m[2]) }
            ELSE { PyStr(m[1]) }

\* the dict `episodes` of one tab after the anchors k.. are folded into acc
RECURSIVE EpisodesOf(_, _, _)
EpisodesOf(anchors, k, acc) ==
    IF k > Len(anchors) THEN acc
    ELSE LET keys == AnchorKeys(anchors[k].text)
             next == [x \in (DOMAIN acc) \cup keys |->
                        IF x \in keys THEN anchors[k].href ELSE acc[x]]
         IN EpisodesOf(anchors, k + 1, next)

\* subtitles[season_index + 1] for every tab, 1-based in encountered order
SubtitlesOf(tabs) == [i \in 1..Len(tabs) |-> EpisodesOf(tabs[i], 1, <<>>)]

\* the value the method returns: {} without tabs, else
\* subtitles.get(season, {}).get(episode)
GetEpisodeSubtitlesFromSeriesPage(tabs, season, episode) ==
    IF tabs = <<>> THEN PyDict(NoDict)
    ELSE IF season.t = "int" /\ season.n \in 1..Len(tabs)
              /\ episode \in DOMAIN SubtitlesOf(tabs)[season.n]
    THEN PyStr(SubtitlesOf(tabs)[season.n][episode])
    ELSE PyNone

-----------------------------------------------------------------------------
(* TorecProvider.query *)

IsSeries(i) == i.type = SERIES_WITH_SUBTITLES
IsMovie(i) == i.type = MOVIE_WITH_SUBTITLES

\* what a year loop leaves behind: the exception it raised, url_title, and
\* the loop variable `title`, which the loop rebinds to each candidate
Picked(raised, url_title, title) ==
    [raised |-> raised, url_title |-> url_title, title |-> title]

\* `for title in matching_urls:` of the series branch, from candidate i on
RECURSIVE SeriesYearLoop(_, _, _, _, _)
SeriesYearLoop(matching, i, year, title, py3) ==
    IF i > Len(matching) THEN Picked("None", PyNone, title)
    ELSE LET cand == PyDict(matching[i])
             url == ServerUrl \o matching[i].data
             m == YearReFirst(YearDivText(matching[i].data))
         IN IF m = NoMatch THEN Picked("IndexError", PyNone, cand)
            ELSE LET lo == PyLE(PyStr(m[1]), year, py3)
                     hi == PyLE(year, PyStr(m[2]), py3)
                 IN IF lo = "E" THEN Picked("TypeError", PyNone, cand)
                    ELSE IF m[2] # <<>>
                    THEN IF lo = "F" THEN SeriesYearLoop(matching, i + 1, year, cand, py3)
                         ELSE IF hi = "E" THEN Picked("TypeError", PyNone, cand)
                         ELSE IF hi = "T" THEN Picked("None", PyStr(url), cand)
                         ELSE SeriesYearLoop(matching, i + 1, year, cand, py3)
                    ELSE IF lo = "T" THEN Picked("None", PyStr(url), cand)
                         ELSE SeriesYearLoop(matching, i + 1, year, cand, py3)

\* `for title in matching_urls:` of the movie branch, from candidate i on
RECURSIVE MovieYearLoop(_, _, _, _)
MovieYearLoop(matching, i, year, title) ==
    IF i > Len(matching) THEN Picked("None", PyNone, title)
    ELSE LET cand == PyDict(matching[i])
             url == ServerUrl \o matching[i].data
             m == MovieYearReFirst(YearDivText(matching[i].data))
         IN IF m = NoMatch THEN Picked("IndexError", PyNone, cand)
            ELSE IF m[1] # <<>> /\ PyEq(year, PyStr(m[1]))
                 THEN Picked("None", PyStr(url), cand)
                 ELSE MovieYearLoop(matching, i + 1, year, cand)

\* dl_code_regex.match(row['id']).groups()[0] for an id 'dlRow_<code>'
DlCode(id) ==
    CASE id = "dlRow_abc" -> "abc"
      [] id = "dlRow_x1" -> "x1"
      [] id = "dlRow_x2" -> "x2"

\* release -> dl_code of the rows of the listing page, a later row replacing
\* an earlier one of the same release
ReleaseMapping(rows) ==
    [r \in { rows[i].release : i \in 1..Len(rows) } |->
        LET last == CHOOSE i \in 1..Len(rows) :
                        /\ rows[i].release = r
                        /\ \A j \in 1..Len(rows) : rows[j].release = r => j <= i
        IN DlCode(rows[last].id)]

TorecSubtitle(page_link, series, season, episode, title, subtitle_id, mapping) ==
    [language |-> "he", hearing_impaired |-> FALSE, page_link |-> page_link,
     series |-> series, season |-> season, episode |-> episode, title |-> title,
     subtitle_id |-> subtitle_id, releases_to_dl_codes_mapping |-> mapping]

\* what a call of query produces: the exception (or "None"), the returned
\* list, and the locals url_title and title at the exit
Outcome(raised, ret, url_title, title) ==
    [raised |-> raised, ret |-> ret, url_title |-> url_title, title |-> title]

\* from 'get the list of subtitles' to the return
QueryListing(url, url_title, title, season, episode) ==
    IF SubIdNoMatch(url) THEN Outcome("AttributeError", <<>>, url_title, title)
    ELSE Outcome("None",
                 <<TorecSubtitle(url, title, season, episode, title,
                                 PyStr(SubtitleIdOf(url)), ReleaseMapping(RowsOf(url)))>>,
                 url_title, title)

QuerySeries(title, year, season, episode, env, py3) ==
    LET matching == SelectSeq(env.suggestions, IsSeries)
    IN IF matching = <<>> THEN Outcome("None", <<>>, PyNone, title)
       ELSE LET pick == IF Truthy(year)
                        THEN SeriesYearLoop(matching, 1, year, title, py3)
                        ELSE Picked("None", PyStr(ServerUrl \o matching[1].data), title)
            IN IF pick.raised # "None"
               THEN Outcome(pick.raised, <<>>, pick.url_title, pick.title)
               ELSE IF ~Truthy(pick.url_title)
               THEN Outcome("None", <<>>, pick.url_title, pick.title)
               ELSE LET wanted == GetEpisodeSubtitlesFromSeriesPage(env.tabs, season, episode)
                    IN IF ~Truthy(wanted)
                       THEN Outcome("None", <<>>, pick.url_title, pick.title)
                       ELSE QueryListing(ServerUrl \o wanted.s, pick.url_title,
                                         pick.title, season, episode)

QueryMovie(title, year, season, episode, env) ==
    LET matching == SelectSeq(env.suggestions, IsMovie)
    IN IF matching = <<>> THEN Outcome("None", <<>>, PyNone, title)
       ELSE LET pick == IF Truthy(year)
                        THEN MovieYearLoop(matching, 1, year, title)
                        ELSE Picked("None", PyStr(ServerUrl \o matching[1].data), title)
            IN IF pick.raised # "None"
               THEN Outcome(pick.raised, <<>>, pick.url_title, pick.title)
               ELSE IF ~Truthy(pick.url_title)
               THEN Outcome("None", <<>>, pick.url_title, pick.title)
               ELSE QueryListing(pick.url_title.s, pick.url_title, pick.title,
                                 season, episode)

\* query(title, year, season, episode) against the pages of env
QueryRun(title, year, season, episode, env, py3) ==
    IF env.suggestions = <<>> THEN Outcome("None", <<>>, PyNone, title)
    ELSE IF Truthy(season) /\ Truthy(episode)
    THEN QuerySeries(title, year, season, episode, env, py3)
    ELSE QueryMovie(title, year, season, episode, env)

GoT == <<"G", "o", "T">>
EndersGame == <<"E", "G">>

Titles == {PyStr(GoT), PyStr(EndersGame)}
Years == {PyNone, PyInt(2013), PyStr(<<"2", "0", "1", "1">>),
          PyStr(<<"2", "0", "1", "3">>), PyStr(<<"2", "0", "1", "5">>)}

\* (season, episode) of a lookup: a movie has neither
SeasonEpisodes ==
    {<<PyNone, PyNone>>} \cup ({PyInt(1), PyInt(2)} \X {PyInt(1), PyInt(6)})

\* provider.query(title, year, season, episode). A lookup changes no field
\* of the provider, so one lookup per life cycle shows them all.
Query ==
    /\ pc = "initialized"
    /\ pc' = "used"
    /\ \E title \in Titles, year \in Years, se \in SeasonEpisodes, env \in Env :
          LET out == QueryRun(title, year, se[1], se[2], env, python3)
          IN call' = [op |-> "query", raised |-> out.raised, title |-> title,
                      year |-> year, season |-> se[1], episode |-> se[2],
                      env |-> env, out |-> out]
    /\ UNCHANGED <<username, password, session, logged_in, login_posts, python3>>

-----------------------------------------------------------------------------
(* TorecProvider.list_subtitles *)

Episode(series, season, episode, title) ==
    [kind |-> "Episode", title |-> title, series |-> series,
     season |-> season, episode |-> episode]

Movie(title) ==
    [kind |-> "Movie", title |-> title, series |-> PyNone,
     season |-> PyNone, episode |-> PyNone]

\* the locals title, season, episode of list_subtitles before the call
ListLocals(video) ==
    IF video.kind = "Episode"
    THEN [title |-> video.series, season |-> video.season, episode |-> video.episode]
    ELSE [title |-> video.title, season |-> PyNone, episode |-> PyNone]

\* the parameters of query as self.query(title, season, episode) binds
\* them: positionally, to title, year and season; episode keeps its default
QueryArgs(video) ==
    [title |-> ListLocals(video).title,
     year |-> ListLocals(video).season,
     season |-> ListLocals(video).episode,
     episode |-> PyNone]

\* [s for s in found if s.language in languages]
RECURSIVE FilterLanguages(_, _)
FilterLanguages(found, languages) ==
    IF found = <<>> THEN <<>>
    ELSE IF Head(found).language \in languages
    THEN <<Head(found)>> \o FilterLanguages(Tail(found), languages)
    ELSE FilterLanguages(Tail(found), languages)

Mhysa == <<"M", "h">>

ListVideos ==
    { Episode(PyStr(GoT), PyInt(se), PyInt(ep), PyStr(Mhysa)) : se \in {1, 2}, ep \in {1, 6} }
    \cup { Movie(PyStr(EndersGame)) }

LanguageSets == { {}, {"he"}, {"en", "he"} }

\* provider.list_subtitles(video, languages)
ListSubtitles ==
    /\ pc = "initialized"
    /\ pc' = "used"
    /\ \E video \in ListVideos, languages \in LanguageSets, env \in Env :
          LET a == QueryArgs(video)
              out == QueryRun(a.title, a.year, a.season, a.episode, env, python3)
          IN call' = [op |-> "list_subtitles", raised |-> out.raised, video |-> video,
                      languages |-> languages, env |-> env, args |-> a, out |-> out,
                      ret |-> FilterLanguages(out.ret, languages)]
    /\ UNCHANGED <<username, password, session, logged_in, login_posts, python3>>

-----------------------------------------------------------------------------
(* TorecSubtitle.get_matches *)

Lower(c) ==
    CASE c = "G" -> "g"
      [] c = "T" -> "t"
      [] c = "E" -> "e"
      [] c = "M" -> "m"
      [] OTHER -> c

IsSeparator(c) == c \in {"-", ":", "(", ")", ".", " "}

\* lower case, punctuation to one space, no space at either end
RECURSIVE SanitizeChars(_, _)
SanitizeChars(str, acc) ==
    IF str = <<>>
    THEN IF acc # <<>> /\ acc[Len(acc)] = " " THEN SubSeq(acc, 1, Len(acc) - 1) ELSE acc
    ELSE IF IsSeparator(Head(str))
    THEN IF acc = <<>> \/ acc[Len(acc)] = " "
         THEN SanitizeChars(Tail(str), acc)
         ELSE SanitizeChars(Tail(str), Append(acc, " "))
    ELSE IF Head(str) = "'" THEN SanitizeChars(Tail(str), acc)
    ELSE SanitizeChars(Tail(str), Append(acc, Lower(Head(str))))

\* sanitize(string): None stays None
Sanitize(v) == IF v.t = "str" THEN PyStr(SanitizeChars(v.s, <<>>)) ELSE v

\* labels guess_matches can return for one release
GuessLabels == {"year", "video_codec"}

\* the union of guess_matches over the releases of the mapping
GuessedOf(mapping, guess) == UNION { guess[r] : r \in DOMAIN mapping }

SeriesMatches(sub, video) ==
    Truthy(video.series) /\ Sanitize(sub.series) = Sanitize(video.series)

SeasonMatches(sub, video) ==
    Truthy(video.season) /\ sub.season = video.season

EpisodeMatches(sub, video) ==
    Truthy(video.episode) /\ sub.episode = video.episode

TitleMatches(sub, video) ==
    Truthy(video.title) /\ Sanitize(sub.title) = Sanitize(video.title)

\* subtitle.get_matches(video); guess[release] is what guess_matches returns
\* for the release
GetMatchesOf(sub, video, guess) ==
    (IF video.kind = "Episode"
     THEN (IF SeriesMatches(sub, video) THEN {"series"} ELSE {})
          \cup (IF SeasonMatches(sub, video) THEN {"season"} ELSE {})
          \cup (IF EpisodeMatches(sub, video) THEN {"episode"} ELSE {})
          \cup GuessedOf(sub.releases_to_dl_codes_mapping, guess)
     ELSE GuessedOf(sub.releases_to_dl_codes_mapping, guess))
    \cup (IF TitleMatches(sub, video) THEN {"title"} ELSE {})

Mappings == { <<>>, ReleaseMapping(RowsOf(ServerUrl \o MovieA)) }

MatchSubtitles ==
    { TorecSubtitle(None, PyStr(series), PyInt(se), PyInt(ep), PyStr(Mhysa), PyInt(263129), mp) :
        series \in {GoT, EndersGame}, se \in {0, 1, 3}, ep \in {0, 1, 10}, mp \in Mappings }

MatchVideos ==
    { Episode(PyStr(series), PyInt(se), PyInt(ep), title) :
        series \in {<<"g", "o", "t">>, EndersGame}, se \in {0, 1, 3}, ep \in {0, 1, 10},
        title \in {PyStr(<<"m", "h", ".">>), PyNone} }
    \cup { Movie(PyStr(Mhysa)), Movie(PyStr(EndersGame)) }

\* subtitle.get_matches(video) on a subtitle built directly, before any
\* provider exists
GetMatches ==
    /\ call = NoCall
    /\ \E sub \in MatchSubtitles, video \in MatchVideos :
          \E guess \in [DOMAIN sub.releases_to_dl_codes_mapping -> SUBSET GuessLabels] :
             call' = [op |-> "get_matches", raised |-> "None", sub |-> sub,
                      video |-> video, guess |-> guess,
                      matches |-> GetMatchesOf(sub, video, guess)]
    /\ UNCHANGED <<pc, username, password, session, logged_in, login_posts, python3>>

-----------------------------------------------------------------------------

Next ==
    \/ \E u \in Credentials, p \in Credentials : Construct(u, p)
    \/ \E content \in LoginBodies : Initialize(content)
    \/ \E status \in LogoutStatuses : Terminate(status)
    \/ Query
    \/ ListSubtitles
    \/ GetMatches

Spec == Init /\ [][Next]_vars

-----------------------------------------------------------------------------
(* Properties *)

\* C1: constructing a TorecProvider raises ConfigurationError if and only if
\* exactly one of username and password is None; otherwise construction
\* succeeds, keeps the credentials, and leaves logged_in false and no session
\* created.
C1_ConstructorValidation ==
    call.op = "__init__" =>
        /\ call.raised \in {"None", "ConfigurationError"}
        /\ (call.raised = "ConfigurationError")
              <=> ((call.username = None) # (call.password = None))
        /\ call.raised = "ConfigurationError" => pc = "ctor_failed"
        /\ call.raised = "None" =>
              /\ pc = "constructed"
              /\ logged_in = FALSE
              /\ session = "None"
              /\ username = call.username
              /\ password = call.password

\* C1 witness: a password without a username was refused
C1_Witness ==
    /\ call.op = "__init__"
    /\ call.raised = "ConfigurationError"
    /\ call.username = None
    /\ call.password # None

\* C2: for an Episode video each of 'series', 'season' and 'episode' is in
\* the result of get_matches if and only if its own values are equal (the
\* series names after normalisation), whatever the values are, 0 included.
C2_LabelsIndependent ==
    (call.op = "get_matches" /\ call.video.kind = "Episode") =>
        /\ ("season" \in call.matches) <=> (call.sub.season = call.video.season)
        /\ ("episode" \in call.matches) <=> (call.sub.episode = call.video.episode)
        /\ ("series" \in call.matches)
              <=> (Sanitize(call.sub.series) = Sanitize(call.video.series))

\* C3: the record query returns carries as subtitle_id every digit of the
\* sub_id of the listing page URL.
C3_FullSubtitleId ==
    (call.op = "query" /\ call.out.ret # <<>>) =>
        call.out.ret[1].subtitle_id = PyStr(SubIdGroup1(call.out.ret[1].page_link))

\* C4: initialize posts a login request exactly when both credentials were
\* supplied; then it raises AuthenticationError carrying the username, and
\* leaves logged_in false, exactly when the response body is the single byte
\* '1', and otherwise sets logged_in; without credentials nothing is posted
\* and logged_in stays false.
C4_InitializeLogin ==
    call.op = "initialize" =>
        /\ session = "open"
        /\ call.posted <=> (username # None /\ password # None)
        /\ login_posts = IF call.posted THEN 1 ELSE 0
        /\ (call.posted /\ call.content = <<"1">>) =>
              /\ call.raised = "AuthenticationError"
              /\ call.arg = username
              /\ logged_in = FALSE
        /\ (call.posted /\ call.content # <<"1">>) =>
              /\ call.raised = "None"
              /\ logged_in = TRUE
        /\ ~call.posted => (call.raised = "None" /\ logged_in = FALSE)

\* C4 witness: the login endpoint answered '1' and initialize raised
C4_Witness ==
    /\ call.op = "initialize"
    /\ call.posted
    /\ call.raised = "AuthenticationError"
    /\ call.arg = "subliminal"

\* C5: when terminate exits, on every path, the session initialize created
\* has been closed.
C5_TerminateClosesSession ==
    call.op = "terminate" => session = "closed"

\* the candidates of the type a lookup asks for, in suggestion order
WantedCandidates(c) ==
    IF Truthy(c.season) /\ Truthy(c.episode)
    THEN SelectSeq(c.env.suggestions, IsSeries)
    ELSE SelectSeq(c.env.suggestions, IsMovie)

\* the requested year as a number
YearNumber(year) == IF year.t = "int" THEN year.n ELSE StrToInt(year.s)

\* the year text 'start-end', 'start-' or 'year' of a candidate's page
\* contains the year y: start <= y <= end, start <= y, y = year
ContainsYear(data, y) ==
    LET text == YearDivText(data)
    IN IF Len(text) = 9
       THEN StrToInt(SubSeq(text, 1, 4)) <= y /\ y <= StrToInt(SubSeq(text, 6, 9))
       ELSE IF Len(text) = 5 THEN StrToInt(SubSeq(text, 1, 4)) <= y
       ELSE StrToInt(text) = y

\* the candidates of the wanted type whose year contains the requested year
YearHits(c) ==
    { i \in 1..Len(WantedCandidates(c)) :
        ContainsYear(WantedCandidates(c)[i].data, YearNumber(c.year)) }

\* the URL the lookup has to settle on: the first hit when a year is given,
\* the first candidate otherwise
ExpectedUrlTitle(c) ==
    IF ~Truthy(c.year) THEN PyStr(ServerUrl \o WantedCandidates(c)[1].data)
    ELSE IF YearHits(c) = {} THEN PyNone
    ELSE PyStr(ServerUrl \o
               WantedCandidates(c)[CHOOSE i \in YearHits(c) : \A j \in YearHits(c) : i <= j].data)

\* C6: with a year, query selects the first candidate of the wanted type
\* whose scraped year contains the requested year ('start-end': start <=
\* year <= end; 'start-': start <= year; a movie: equal); without a year it
\* takes the first candidate of the wanted type.
C6_YearDisambiguation ==
    (call.op = "query" /\ WantedCandidates(call) # <<>>) =>
        /\ call.out.raised \notin {"TypeError", "IndexError"}
        /\ call.out.url_title = ExpectedUrlTitle(call)

\* the (season, episode) of the lookup is a key of the scraped mapping
EpisodeIsMapped(c) ==
    /\ c.season.t = "int"
    /\ c.season.n \in 1..Len(c.env.tabs)
    /\ c.episode \in DOMAIN SubtitlesOf(c.env.tabs)[c.season.n]

\* the lookup is one that finds nothing
NotFound(c) ==
    \/ c.env.suggestions = <<>>
    \/ WantedCandidates(c) = <<>>
    \/ Truthy(c.year) /\ YearHits(c) = {}
    \/ Truthy(c.season) /\ Truthy(c.episode) /\ c.env.tabs = <<>>
    \/ Truthy(c.season) /\ Truthy(c.episode) /\ ~EpisodeIsMapped(c)

\* C7: a lookup that finds nothing (no suggestion, none of the wanted type,
\* no candidate whose year contains the requested year, no season tab, or
\* season/episode not in the scraped mapping) returns [] and does not raise.
C7_NotFoundIsEmpty ==
    (call.op = "query" /\ NotFound(call)) =>
        (call.out.raised = "None" /\ call.out.ret = <<>>)

\* text is 'a-b' in decimal digits, with a <= b
IsRangeText(text) ==
    \E p \in 2..(Len(text) - 1) :
        /\ text[p] = "-"
        /\ \A i \in (1..Len(text)) \ {p} : IsDigit(text[i])
        /\ StrToInt(SubSeq(text, 1, p - 1)) <= StrToInt(SubSeq(text, p + 1, Len(text)))

\* the numbers a..b of a range text
RangeOf(text) ==
    LET p == CHOOSE p \in 2..(Len(text) - 1) : text[p] = "-"
    IN StrToInt(SubSeq(text, 1, p - 1))..StrToInt(SubSeq(text, p + 1, Len(text)))

\* anchor k of the tab is the last one of the tab that writes the key e
LastWriter(tab, k, e) ==
    \A j \in (k + 1)..Len(tab) : PyInt(e) \notin AnchorKeys(tab[j].text)

\* C8: an anchor 'a-b' (a <= b) of the n-th tab adds exactly the int keys
\* a..b to the episodes of season n, each mapped to the anchor's href, and a
\* lookup of season n and an episode in a..b resolves to that href.
C8_RangeAnchorExpansion ==
    call.op = "query" =>
        \A n \in 1..Len(call.env.tabs) :
            \A k \in 1..Len(call.env.tabs[n]) :
                LET tab == call.env.tabs[n]
                    a == tab[k]
                    before == EpisodesOf(SubSeq(tab, 1, k - 1), 1, <<>>)
                    after == EpisodesOf(SubSeq(tab, 1, k), 1, <<>>)
                    keys == { PyInt(i) : i \in RangeOf(a.text) }
                IN IsRangeText(a.text) =>
                      /\ DOMAIN after = (DOMAIN before) \cup keys
                      /\ \A x \in keys : after[x] = a.href
                      /\ \A x \in (DOMAIN before) \ keys : after[x] = before[x]
                      /\ ( /\ call.season = PyInt(n)
                           /\ call.episode.t = "int"
                           /\ call.episode.n \in RangeOf(a.text)
                           /\ LastWriter(tab, k, call.episode.n)
                           /\ call.out.raised = "None"
                           /\ Truthy(call.out.url_title) )
                         => ( /\ call.out.ret # <<>>
                              /\ call.out.ret[1].page_link = ServerUrl \o a.href )

\* C8 witness: season 1, episode 6 was looked up on a page whose first tab
\* holds the anchor '5-8', and the record links to that anchor's href
C8_Witness ==
    /\ call.op = "query"
    /\ call.season = PyInt(1)
    /\ call.episode = PyInt(6)
    /\ Len(call.env.tabs) = 1
    /\ call.env.tabs[1][2].text = <<"5", "-", "8">>
    /\ call.out.ret # <<>>
    /\ call.out.ret[1].page_link = ServerUrl \o call.env.tabs[1][2].href

\* C9: the record query returns has the title and series the caller gave as
\* title, and the season and episode the caller gave.
C9_RecordCarriesArguments ==
    (call.op = "query" /\ call.out.ret # <<>>) =>
        /\ call.out.ret[1].title = call.title
        /\ call.out.ret[1].series = call.title
        /\ call.out.ret[1].season = call.season
        /\ call.out.ret[1].episode = call.episode

\* C10: list_subtitles searches an Episode with title = video.series,
\* season = video.season and episode = video.episode, a Movie with title =
\* video.title and neither season nor episode, and returns exactly the found
\* records whose language is in languages.
C10_ListSubtitlesArguments ==
    call.op = "list_subtitles" =>
        /\ call.video.kind = "Episode" =>
              /\ call.args.title = call.video.series
              /\ call.args.season = call.video.season
              /\ call.args.episode = call.video.episode
        /\ call.video.kind = "Movie" =>
              /\ call.args.title = call.video.title
              /\ call.args.season = PyNone
              /\ call.args.episode = PyNone
        /\ Len(call.ret) <= Len(call.out.ret)
        /\ \A i \in 1..Len(call.out.ret) :
              (call.out.ret[i].language \in call.languages)
                 <=> (\E j \in 1..Len(call.ret) : call.ret[j] = call.out.ret[i])

\* the anchor text encodes the episode number e: the single number e, or a
\* range 'a-b' with a <= e <= b
CoversEpisode(text, e) ==
    \/ /\ text # <<>>
       /\ \A i \in 1..Len(text) : IsDigit(text[i])
       /\ StrToInt(text) = e
    \/ IsRangeText(text) /\ e \in RangeOf(text)

\* the anchors of the tab that cover episode e
CoveringAnchors(tab, e) == { k \in 1..Len(tab) : CoversEpisode(tab[k].text, e) }

\* C11: a series lookup with int season s and int episode e that reaches
\* the series page resolves to the href of the (last) anchor of the s-th tab
\* that covers e, a single number like a range, and finds nothing only when
\* no anchor of that tab covers e.
C11_SingleEpisodeAnchor ==
    ( /\ call.op = "query"
      /\ call.season.t = "int"
      /\ call.episode.t = "int"
      /\ call.season.n \in 1..Len(call.env.tabs)
      /\ call.out.raised = "None"
      /\ Truthy(call.out.url_title) ) =>
        LET tab == call.env.tabs[call.season.n]
            hits == CoveringAnchors(tab, call.episode.n)
        IN IF hits = {} THEN call.out.ret = <<>>
           ELSE /\ call.out.ret # <<>>
                /\ call.out.ret[1].page_link =
                      ServerUrl \o tab[CHOOSE k \in hits : \A j \in hits : j <= k].href

====
